---- MODULE Spec2Model ----
(***************************************************************************)
(* Model of src/config.hpp: the global registry `instance` of typed        *)
(* configuration fields (ConfigVariable_t<_Ty>), its JSON text interface    *)
(* (Config::get / Config::set) and its file interface (Config::load /       *)
(* Config::save).                                                           *)
(*                                                                          *)
(* The JSON library (nlohmann::json) and std::filesystem are not part of    *)
(* the repository; the operators below model the calls config.hpp makes     *)
(* into them, at the line that makes the call.  JSON text is a sequence of  *)
(* lexical tokens; dump and parse convert between token sequences and JSON  *)
(* values.                                                                  *)
(***************************************************************************)
EXTENDS Integers, Sequences, FiniteSets, TLC

\* ------------------------------------------------------------------ bounds

\* Largest number of fields registered in `instance.variables_`.
MaxFields == 2

\* ------------------------------------------------------------ typed values

\* Keys of the fields, listed in ascending std::string order.
KeyOrder == <<"muted", "volume", "zoom">>

\* Keys a field is constructed with.
Keys == {"muted", "volume"}

\* Position of key k in std::less<std::string> order.
KeyRank(k) == CHOOSE i \in 1..Len(KeyOrder) : KeyOrder[i] = k

\* A value of a field's declared type _Ty, for the instantiations
\* ConfigVariable_t<int> and ConfigVariable_t<bool>.
IntVal(n) == [type |-> "int", b |-> FALSE, n |-> n]
BoolVal(b) == [type |-> "bool", b |-> b, n |-> 0]

TypedValues == {IntVal(50), IntVal(80), BoolVal(FALSE), BoolVal(TRUE)}

\* ------------------------------------------------------------- JSON values

\* nlohmann::json values: a value_t tag and the payload of that tag.  An
\* object's members are kept sorted by key (object_t is a std::map), an
\* array's elements in order.
JNull == [type |-> "null", b |-> FALSE, n |-> 0, s |-> "", items |-> <<>>]
JBool(b) == [type |-> "boolean", b |-> b, n |-> 0, s |-> "", items |-> <<>>]
JInt(n) == [type |-> "number_integer", b |-> FALSE, n |-> n, s |-> "", items |-> <<>>]
JStr(s) == [type |-> "string", b |-> FALSE, n |-> 0, s |-> s, items |-> <<>>]
JArray(elems) == [type |-> "array", b |-> FALSE, n |-> 0, s |-> "", items |-> elems]
JObject(members) == [type |-> "object", b |-> FALSE, n |-> 0, s |-> "", items |-> members]

Member(k, v) == [key |-> k, val |-> v]

\* object.is_object()
is_object(j) == j.type = "object"

\* object.find(key_) != object.end()
Contains(object, key) == \E i \in 1..Len(object.items) : object.items[i].key = key

\* object[key_] on a const object holding the key.
At(object, key) ==
  LET i == CHOOSE i \in 1..Len(object.items) : object.items[i].key = key
  IN object.items[i].val

\* MapPut as an insertion-ordered map would do it (ordered_map): a new key
\* goes to the end.
MapPutInsertionOrder(members, key, val) ==
  IF \E i \in 1..Len(members) : members[i].key = key
  THEN [i \in 1..Len(members) |->
          IF members[i].key = key THEN [key |-> key, val |-> val] ELSE members[i]]
  ELSE Append(members, [key |-> key, val |-> val])

\* std::map insertion: the members with (key, val) put at key's sorted
\* position, replacing the member of the same key if there is one.
MapPut(members, key, val) ==
  LET less == SelectSeq(members, LAMBDA m : KeyRank(m.key) < KeyRank(key))
      more == SelectSeq(members, LAMBDA m : KeyRank(m.key) > KeyRank(key))
  IN less \o <<Member(key, val)>> \o more

\* object[key_] = value on a non-const json: a null value becomes an object
\* first; the member is inserted or overwritten.
Assign(object, key, val) == JObject(MapPut(object.items, key, val))

\* -------------------------------------------------------- typed <-> JSON

\* ToJson with bool serialized like the other arithmetic types, as a number.
ToJsonBoolAsNumber(v) ==
  CASE v.type = "int" -> JInt(v.n)
    [] v.type = "bool" -> JInt(IF v.b THEN 1 ELSE 0)

\* The json constructed from a _Ty (to_json): int -> number_integer,
\* bool -> boolean.
ToJson(v) ==
  CASE v.type = "int" -> JInt(v.n)
    [] v.type = "bool" -> JBool(v.b)

\* Whether json::get<_Ty>() converts j: an arithmetic _Ty other than bool takes
\* numbers and booleans, bool takes booleans only; anything else throws
\* type_error.
Convertible(j, type) ==
  CASE type = "int" -> j.type \in {"number_integer", "boolean"}
    [] type = "bool" -> j.type = "boolean"

\* json::get<_Ty>() of a convertible value (from_json).
FromJson(j, type) ==
  CASE type = "int" ->
         IF j.type = "boolean" THEN IntVal(IF j.b THEN 1 ELSE 0) ELSE IntVal(j.n)
    [] type = "bool" -> BoolVal(j.b)

\* ---------------------------------------------------------------- JSON text

\* A lexical token of JSON text.  kind is a punctuator, a literal name,
\* "number", "string", or "junk" for characters no JSON token starts with.
Tok(kind) == [kind |-> kind, n |-> 0, s |-> ""]
NumTok(n) == [kind |-> "number", n |-> n, s |-> ""]
StrTok(s) == [kind |-> "string", n |-> 0, s |-> s]

RECURSIVE DumpValue(_), DumpMembers(_, _), DumpElements(_, _)

\* json::dump(): compact text, members in the object's (sorted) order.
DumpValue(j) ==
  CASE j.type = "null" -> <<Tok("null")>>
    [] j.type = "boolean" -> <<Tok(IF j.b THEN "true" ELSE "false")>>
    [] j.type = "number_integer" -> <<NumTok(j.n)>>
    [] j.type = "string" -> <<StrTok(j.s)>>
    [] j.type = "array" -> <<Tok("[")>> \o DumpElements(j.items, 1) \o <<Tok("]")>>
    [] j.type = "object" -> <<Tok("{")>> \o DumpMembers(j.items, 1) \o <<Tok("}")>>

DumpMembers(members, i) ==
  IF i > Len(members) THEN <<>>
  ELSE (IF i > 1 THEN <<Tok(",")>> ELSE <<>>)
       \o <<StrTok(members[i].key), Tok(":")>> \o DumpValue(members[i].val)
       \o DumpMembers(members, i + 1)

DumpElements(elems, i) ==
  IF i > Len(elems) THEN <<>>
  ELSE (IF i > 1 THEN <<Tok(",")>> ELSE <<>>)
       \o DumpValue(elems[i]) \o DumpElements(elems, i + 1)

\* Result of parsing from a position: ok, the value, the next position.
ParseFail == [ok |-> FALSE, value |-> JNull, next |-> 0]
ParseOk(j, next) == [ok |-> TRUE, value |-> j, next |-> next]

RECURSIVE ParseValue(_, _), ParseMembers(_, _, _), ParseElements(_, _, _)

\* The parser's value rule at text[pos].
ParseValue(text, pos) ==
  IF pos > Len(text) THEN ParseFail
  ELSE LET t == text[pos] IN
    CASE t.kind = "null" -> ParseOk(JNull, pos + 1)
      [] t.kind = "true" -> ParseOk(JBool(TRUE), pos + 1)
      [] t.kind = "false" -> ParseOk(JBool(FALSE), pos + 1)
      [] t.kind = "number" -> ParseOk(JInt(t.n), pos + 1)
      [] t.kind = "string" -> ParseOk(JStr(t.s), pos + 1)
      [] t.kind = "[" ->
           IF pos + 1 <= Len(text) /\ text[pos + 1].kind = "]"
           THEN ParseOk(JArray(<<>>), pos + 2)
           ELSE ParseElements(text, pos + 1, <<>>)
      [] t.kind = "{" ->
           IF pos + 1 <= Len(text) /\ text[pos + 1].kind = "}"
           THEN ParseOk(JObject(<<>>), pos + 2)
           ELSE ParseMembers(text, pos + 1, <<>>)
      [] OTHER -> ParseFail

\* The members of an object from text[pos]: string ':' value, then ',' or '}'.
\* A repeated key overwrites the earlier member.
ParseMembers(text, pos, members) ==
  IF pos + 1 > Len(text) \/ text[pos].kind # "string" \/ text[pos + 1].kind # ":"
  THEN ParseFail
  ELSE LET v == ParseValue(text, pos + 2) IN
    IF ~v.ok \/ v.next > Len(text) THEN ParseFail
    ELSE LET put == MapPut(members, text[pos].s, v.value) IN
      CASE text[v.next].kind = "}" -> ParseOk(JObject(put), v.next + 1)
        [] text[v.next].kind = "," -> ParseMembers(text, v.next + 1, put)
        [] OTHER -> ParseFail

\* The elements of an array from text[pos]: value, then ',' or ']'.
ParseElements(text, pos, elems) ==
  LET v == ParseValue(text, pos) IN
    IF ~v.ok \/ v.next > Len(text) THEN ParseFail
    ELSE CASE text[v.next].kind = "]" -> ParseOk(JArray(Append(elems, v.value)), v.next + 1)
           [] text[v.next].kind = "," -> ParseElements(text, v.next + 1, Append(elems, v.value))
           [] OTHER -> ParseFail

\* nlohmann::json::parse(text): the value of the whole text; ok is FALSE where
\* parse throws parse_error (no value, or tokens left after the value).
Parse(text) ==
  LET v == ParseValue(text, 1) IN
    IF v.ok /\ v.next = Len(text) + 1 THEN v ELSE ParseFail

\* ------------------------------------------------------------------ fields

\* A registered ConfigVariable_t<_Ty>: its key_ and its value_.
Field(key, value) == [key_ |-> key, value_ |-> value]

Fields == {Field(k, v) : k \in Keys, v \in TypedValues}

\* Outcome of an operation on the fields: the fields afterwards and the
\* exception that left it ("none" when it returned).
Outcome(fields, err) == [fields |-> fields, err |-> err]

\* ConfigVariable_t::save: object[key_] = value_.
ConfigVariable_save(field, object) == Assign(object, field.key_, ToJson(field.value_))

\* ConfigVariable_t::load: nothing when object has no key_; else value_ is
\* assigned object[key_].get<_Ty>(), which throws type_error when the value
\* does not convert.
ConfigVariable_load(field, object) ==
  IF ~Contains(object, field.key_) THEN Outcome(field, "none")
  ELSE IF ~Convertible(At(object, field.key_), field.value_.type)
       THEN Outcome(field, "type_error")
       ELSE Outcome([field EXCEPT !.value_ = FromJson(At(object, field.key_), field.value_.type)],
                    "none")

RECURSIVE SaveAll(_, _, _), LoadAll(_, _, _), LoadAllFrom(_, _, _, _)

\* The loop of Config::get over variables_ from position i.
SaveAll(fields, i, object) ==
  IF i > Len(fields) THEN object
  ELSE SaveAll(fields, i + 1, ConfigVariable_save(fields[i], object))

\* LoadAll that rolls back: a load that throws leaves the fields as they were
\* before the loop.
LoadAllFrom(fields, i, object, before) ==
  IF i > Len(fields) THEN Outcome(fields, "none")
  ELSE LET r == ConfigVariable_load(fields[i], object) IN
    IF r.err # "none" THEN Outcome(before, r.err)
    ELSE LoadAllFrom([fields EXCEPT ![i] = r.fields], i + 1, object, before)

LoadAllOrNothing(fields, i, object) == LoadAllFrom(fields, i, object, fields)

\* The loop of Config::set over variables_ from position i; the first load
\* that throws ends it.
LoadAll(fields, i, object) ==
  IF i > Len(fields) THEN Outcome(fields, "none")
  ELSE LET r == ConfigVariable_load(fields[i], object) IN
    IF r.err # "none" THEN Outcome(fields, r.err)
    ELSE LoadAll([fields EXCEPT ![i] = r.fields], i + 1, object)

\* Config::get: a null json, every variable saved into it, dumped.
Config_get(fields) == DumpValue(SaveAll(fields, 1, JNull))

\* `const auto object{parse(json)}`: list-initialization of a json from one
\* json.  A build whose compiler prefers the initializer_list constructor
\* (wraps) makes object the one-element array holding the parsed value; a build
\* that copy-initializes makes it the parsed value.
ListInit(parsed, wraps) == IF wraps THEN JArray(<<parsed>>) ELSE parsed

\* Config::set: parse (throws parse_error), return unless an object, load
\* every variable.
Config_set(fields, json, wraps) ==
  LET p == Parse(json) IN
    IF ~p.ok THEN Outcome(fields, "parse_error")
    ELSE LET object == ListInit(p.value, wraps) IN
      IF ~is_object(object) THEN Outcome(fields, "none")
      ELSE LoadAll(fields, 1, object)

\* ------------------------------------------------------------- file system

\* The current working directory, the default of Config::path_.
current_path == "cwd"

\* A base path whose parent directory does not exist.
MissingParentPath == "cwd/missing/cfg"

Paths == {current_path, MissingParentPath}

\* The file the store is saved to, and a file of the current directory that
\* the process may neither read nor write.
ConfigFile == "cfg.json"
LockedFile == "locked.json"
FileNames == {ConfigFile, LockedFile}

NoFile == <<Tok("absent")>>

\* std::filesystem::create_directory(path_), the throwing overload: TRUE when
\* it returns (the directory exists), FALSE when it throws filesystem_error
\* (create_directory is not recursive and the parent is missing).  Every path
\* of Paths exists or has a missing parent; a missing directory under an
\* existing parent, which the call would create, is not among them.
create_directory(dirs, path) == path \in dirs

\* ifs.is_open() / ofs.is_open() for path_ / file_name.
CanRead(dirs, files, path, name) == path \in dirs /\ name = ConfigFile /\ files # NoFile
CanWrite(dirs, path, name) == path \in dirs /\ name = ConfigFile

\* Config::load without the is_open() test: an unopened stream reads as empty
\* text, which is handed to set().
Config_loadUnchecked(fields, dirs, files, path, name, wraps) ==
  IF ~create_directory(dirs, path) THEN Outcome(fields, "filesystem_error")
  ELSE Config_set(fields, IF CanRead(dirs, files, path, name) THEN files ELSE <<>>, wraps)

\* Config::load: create_directory, open for reading, set() the whole content.
Config_load(fields, dirs, files, path, name, wraps) ==
  IF ~create_directory(dirs, path) THEN Outcome(fields, "filesystem_error")
  ELSE IF ~CanRead(dirs, files, path, name) THEN Outcome(fields, "none")
       ELSE Config_set(fields, files, wraps)

\* Config::save: create_directory, open for writing, write get().  The
\* outcome is the content of path_/file_name afterwards.
Config_save(fields, dirs, files, path, name) ==
  IF ~create_directory(dirs, path) THEN [files |-> files, err |-> "filesystem_error"]
  ELSE IF ~CanWrite(dirs, path, name) THEN [files |-> files, err |-> "none"]
       ELSE [files |-> Config_get(fields), err |-> "none"]

\* ------------------------------------------------------------------- inputs

\* "not json"
NotJsonText == <<Tok("junk"), Tok("junk")>>
\* "[1,2,3]"
ArrayText == DumpValue(JArray(<<JInt(1), JInt(2), JInt(3)>>))
\* "50"
ScalarText == <<NumTok(50)>>
\* "{"volume":"
TruncatedText == <<Tok("{"), StrTok("volume"), Tok(":")>>
\* "{"volume":50,"muted":true}": members not in key order
UnsortedText ==
  <<Tok("{"), StrTok("volume"), Tok(":"), NumTok(50), Tok(","),
    StrTok("muted"), Tok(":"), Tok("true"), Tok("}")>>

\* Values a document gives a key, and the mark of a key it leaves out.
DocValues == {JInt(50), JBool(TRUE), JStr("hi")}
Absent == JStr("<absent>")

\* The object with the members of choice that are not Absent.
RECURSIVE DocOf(_, _)
DocOf(choice, i) ==
  IF i > Len(KeyOrder) THEN JObject(<<>>)
  ELSE LET rest == DocOf(choice, i + 1) IN
    IF choice[KeyOrder[i]] = Absent THEN rest
    ELSE JObject(<<Member(KeyOrder[i], choice[KeyOrder[i]])>> \o rest.items)

Docs ==
  {DocOf(c, 1) : c \in {c \in [{"muted", "volume", "zoom"} -> DocValues \cup {Absent}] :
                          c["zoom"] \in {Absent, JInt(50)}}}

ObjectTexts == {DumpValue(d) : d \in Docs}

MalformedTexts == {NotJsonText, TruncatedText, <<>>}
NonObjectTexts == {ArrayText, ScalarText, <<Tok("null")>>}

SetTexts == ObjectTexts \cup MalformedTexts \cup NonObjectTexts \cup {UnsortedText}

\* Texts another program leaves in the configuration file.
FileTexts ==
  {NotJsonText, ArrayText, UnsortedText,
   DumpValue(JObject(<<Member("volume", JStr("hi"))>>)),
   DumpValue(JObject(<<Member("muted", JBool(TRUE)), Member("zoom", JInt(50))>>))}

\* -------------------------------------------------------------------- state

VARIABLES
  variables_,     \* Config::variables_: the registered fields, in order
  path_,          \* Config::path_
  placeholder,    \* whether a default-constructed ConfigVariable_t exists
  listInitWraps,  \* the build: whether line 61 wraps the parsed json in an array
  dirs,           \* the directories that exist
  files,          \* content of current_path/ConfigFile, or NoFile
  saved,          \* the fields as they were when save() wrote files, while it stands
  call            \* the last call of the Config interface and how it ended

vars == <<variables_, path_, placeholder, listInitWraps, dirs, files, saved, call>>

NoSave == [valid |-> FALSE, fields |-> <<>>, path |-> current_path]

\* The record of a call: the operation, its text (argument of set, result of
\* get, content read by load), its file name, the exception it ended with, and
\* the fields and the file before it.
Call(op, text, name, err, pre, preFiles) ==
  [op |-> op, text |-> text, name |-> name, err |-> err, pre |-> pre, preFiles |-> preFiles]

NoCall == Call("none", <<>>, "", "none", <<>>, NoFile)

\* The values the state takes.
TypeOK ==
  /\ Len(variables_) <= MaxFields
  /\ \A i \in 1..Len(variables_) :
       /\ variables_[i].key_ \in Keys
       /\ variables_[i].value_.type \in {"int", "bool"}
  /\ path_ \in Paths
  /\ placeholder \in BOOLEAN
  /\ listInitWraps \in BOOLEAN
  /\ dirs = {current_path}
  /\ files = NoFile \/ files \in FileTexts \/ Parse(files).ok
  /\ saved.valid \in BOOLEAN
  /\ call.op \in {"none", "get", "set", "set_get", "load", "save"}
  /\ call.err \in {"none", "parse_error", "type_error", "filesystem_error"}

Init ==
  /\ variables_ = <<>>
  /\ path_ = current_path
  /\ placeholder = FALSE
  /\ listInitWraps \in BOOLEAN
  /\ dirs = {current_path}
  /\ files = NoFile
  /\ saved = NoSave
  /\ call = NoCall

\* ConfigVariable_t(key, value): instance.add_variable(this).
add_variable(key, value) ==
  /\ Len(variables_) < MaxFields
  /\ variables_' = Append(variables_, Field(key, value))
  /\ call' = NoCall
  /\ UNCHANGED <<path_, placeholder, listInitWraps, dirs, files, saved>>

\* ConfigVariable_t(): the default constructor registers nothing.
DefaultConstruct ==
  /\ ~placeholder
  /\ placeholder' = TRUE
  /\ call' = NoCall
  /\ UNCHANGED <<variables_, path_, listInitWraps, dirs, files, saved>>

\* A client writes a field through get() / operator* / operator->.
Mutate(i, value) ==
  /\ i \in 1..Len(variables_)
  /\ value.type = variables_[i].value_.type
  /\ value # variables_[i].value_
  /\ variables_' = [variables_ EXCEPT ![i].value_ = value]
  /\ call' = NoCall
  /\ UNCHANGED <<path_, placeholder, listInitWraps, dirs, files, saved>>

\* instance.get()
Get ==
  /\ call' = Call("get", Config_get(variables_), "", "none", variables_, files)
  /\ UNCHANGED <<variables_, path_, placeholder, listInitWraps, dirs, files, saved>>

\* instance.set(json)
Set(json) ==
  LET r == Config_set(variables_, json, listInitWraps) IN
    /\ variables_' = r.fields
    /\ call' = Call("set", json, "", r.err, variables_, files)
    /\ UNCHANGED <<path_, placeholder, listInitWraps, dirs, files, saved>>

\* instance.set(instance.get())
SetGet ==
  LET r == Config_set(variables_, Config_get(variables_), listInitWraps) IN
    /\ variables_' = r.fields
    /\ call' = Call("set_get", Config_get(variables_), "", r.err, variables_, files)
    /\ UNCHANGED <<path_, placeholder, listInitWraps, dirs, files, saved>>

\* instance.set_default_path(path)
set_default_path(path) ==
  /\ path # path_
  /\ path_' = path
  /\ call' = NoCall
  /\ UNCHANGED <<variables_, placeholder, listInitWraps, dirs, files, saved>>

\* instance.load(file_name)
Load(name) ==
  LET r == Config_load(variables_, dirs, files, path_, name, listInitWraps) IN
    /\ variables_' = r.fields
    /\ call' = Call("load", IF CanRead(dirs, files, path_, name) THEN files ELSE <<>>,
                    name, r.err, variables_, files)
    /\ UNCHANGED <<path_, placeholder, listInitWraps, dirs, files, saved>>

\* instance.save(file_name)
Save(name) ==
  LET r == Config_save(variables_, dirs, files, path_, name) IN
    /\ files' = r.files
    /\ saved' = IF r.err = "none" /\ CanWrite(dirs, path_, name)
                THEN [valid |-> TRUE, fields |-> variables_, path |-> path_]
                ELSE saved
    /\ call' = Call("save", <<>>, name, r.err, variables_, files)
    /\ UNCHANGED <<variables_, path_, placeholder, listInitWraps, dirs>>

\* Another program rewrites the configuration file.
ExternalWrite(text) ==
  /\ files # text
  /\ files' = text
  /\ saved' = NoSave
  /\ call' = NoCall
  /\ UNCHANGED <<variables_, path_, placeholder, listInitWraps, dirs>>

\* The text interface: construction, client writes, get and set.
Next ==
  \/ \E k \in Keys, v \in TypedValues : add_variable(k, v)
  \/ \E i \in 1..MaxFields, v \in TypedValues : Mutate(i, v)
  \/ Get
  \/ \E json \in SetTexts : Set(json)
  \/ SetGet

Spec == Init /\ [][Next]_vars

\* The file interface: construction, client writes, load and save, and
\* another program writing the file.
NextFile ==
  \/ \E k \in Keys, v \in TypedValues : add_variable(k, v)
  \/ DefaultConstruct
  \/ \E i \in 1..MaxFields, v \in TypedValues : Mutate(i, v)
  \/ \E p \in Paths : set_default_path(p)
  \/ \E name \in FileNames : Load(name)
  \/ \E name \in FileNames : Save(name)
  \/ \E text \in FileTexts : ExternalWrite(text)

SpecFile == Init /\ [][NextFile]_vars

\* ------------------------------------------------------------------- claims

\* The fields have pairwise distinct keys.
DistinctKeys(fields) ==
  \A i, j \in 1..Len(fields) : fields[i].key_ = fields[j].key_ => i = j

\* The json the last call's text parses to (JNull when it does not parse).
CallDoc == Parse(call.text).value

\* The last call's text is the text of a JSON object.
CallTextIsObject == Parse(call.text).ok /\ is_object(CallDoc)

\* The keys of the members of an object's text, in the order of the text.
KeysOfText(text) ==
  LET at == SelectSeq([p \in 1..Len(text) |-> p],
                      LAMBDA p : /\ text[p].kind = "string"
                                 /\ p + 1 <= Len(text)
                                 /\ text[p + 1].kind = ":")
  IN [i \in 1..Len(at) |-> text[at[i]].s]

RegistrationKeys(fields) == [i \in 1..Len(fields) |-> fields[i].key_]

\* C1 as claimed: set(get()) leaves every registered field's value unchanged
\* and raises no error, for any registered fields with any keys.
C1_RoundTripAnyKeys ==
  call.op = "set_get" => call.err = "none" /\ variables_ = call.pre

\* C1 amended: when the registered fields have pairwise distinct keys,
\* set(get()) leaves every field's value unchanged and raises no error.
C1_RoundTripDistinctKeys ==
  (call.op = "set_get" /\ DistinctKeys(call.pre))
    => call.err = "none" /\ variables_ = call.pre

\* set(get()) ran over two fields of distinct keys and different types, in a
\* build where set loads the parsed object.
C1_Witness ==
  /\ call.op = "set_get"
  /\ ~listInitWraps
  /\ Len(call.pre) = 2
  /\ DistinctKeys(call.pre)
  /\ call.pre[1].value_.type # call.pre[2].value_.type
  /\ CallTextIsObject

\* C2: set(text) with text that is not valid JSON, or that parses to a
\* non-object, leaves every registered field unchanged and raises no error.
C2_MalformedInputTolerated ==
  (call.op = "set" /\ ~CallTextIsObject)
    => call.err = "none" /\ variables_ = call.pre

\* Every member of doc that a field's key names has the JSON type of the
\* field's declared type.
TypeCompatible(doc, fields) ==
  \A i \in 1..Len(fields) :
    Contains(doc, fields[i].key_)
      => At(doc, fields[i].key_).type = ToJson(fields[i].value_).type

\* C3: set(document), for an object document with type-compatible values,
\* overwrites exactly the fields whose key is in the document, each with the
\* document's value, leaves the other fields unchanged, and raises no error
\* whatever other keys the document holds.
C3_PartialUpdate ==
  (call.op = "set" /\ CallTextIsObject /\ TypeCompatible(CallDoc, call.pre))
    => /\ call.err = "none"
       /\ Len(variables_) = Len(call.pre)
       /\ \A i \in 1..Len(call.pre) :
            /\ variables_[i].key_ = call.pre[i].key_
            /\ IF Contains(CallDoc, call.pre[i].key_)
               THEN ToJson(variables_[i].value_) = At(CallDoc, call.pre[i].key_)
               ELSE variables_[i] = call.pre[i]

\* Some field's key is in doc with a value that does not convert to the
\* field's declared type.
HasMismatch(doc, fields) ==
  \E i \in 1..Len(fields) :
    /\ Contains(doc, fields[i].key_)
    /\ ~Convertible(At(doc, fields[i].key_), fields[i].value_.type)

\* C4: a set over an object document in which a registered field's key has a
\* value that does not convert to the field's type ends with a
\* deserialization error.
C4_TypeMismatchSurfaced ==
  (call.op = "set" /\ CallTextIsObject /\ HasMismatch(CallDoc, call.pre))
    => call.err = "type_error"

\* C5: load(f) after a save(f) under the same base path, the file not changed
\* in between, sets every field registered at the save to the value it had at
\* the save (fields of pairwise distinct keys).
C5_FileRoundTrip ==
  (/\ call.op = "load"
   /\ call.name = ConfigFile
   /\ saved.valid
   /\ saved.path = path_
   /\ DistinctKeys(variables_))
    => /\ call.err = "none"
       /\ \A i \in 1..Len(saved.fields) : variables_[i] = saved.fields[i]

\* The last call was a load whose open for reading was reached and failed.
LoadOpenFailed ==
  /\ call.op = "load"
  /\ create_directory(dirs, path_)
  /\ ~CanRead(dirs, call.preFiles, path_, call.name)

\* C6: a load that cannot open base_path/file_name for reading raises no
\* error and leaves every registered field with the value it had.
C6_FileAbsenceTolerated ==
  LoadOpenFailed => call.err = "none" /\ variables_ = call.pre

\* load could not open its file (no such file, or no permission) with fields
\* registered.
C6_Witness ==
  /\ LoadOpenFailed
  /\ Len(variables_) = MaxFields
  /\ \/ call.name = LockedFile
     \/ call.name = ConfigFile /\ call.preFiles = NoFile

\* C7: a load or save whose base directory cannot be created returns without
\* raising, without changing a field and without writing a file.
C7_NonCreatableDirectoryNoOp ==
  (call.op \in {"load", "save"} /\ ~create_directory(dirs, path_))
    => call.err = "none" /\ variables_ = call.pre /\ files = call.preFiles

\* C8 as claimed: the text of get() lists the keys in registration order.
C8_KeysInRegistrationOrder ==
  (call.op = "get" /\ DistinctKeys(variables_))
    => KeysOfText(call.text) = RegistrationKeys(variables_)

\* C8 amended: the text of get() lists the keys of the registered fields
\* (distinct keys) in ascending order of the key strings, whatever the order
\* of registration.
C8_KeysInAscendingOrder ==
  (call.op = "get" /\ DistinctKeys(variables_))
    => LET keys == KeysOfText(call.text) IN
         /\ Len(keys) = Len(variables_)
         /\ {keys[i] : i \in 1..Len(keys)} = {variables_[i].key_ : i \in 1..Len(variables_)}
         /\ \A i, j \in 1..Len(keys) : i < j => KeyRank(keys[i]) < KeyRank(keys[j])

\* get() of volume = 80 registered before muted = false returned
\* {"muted":false,"volume":80}.
C8_Witness ==
  /\ call.op = "get"
  /\ variables_ = <<Field("volume", IntVal(80)), Field("muted", BoolVal(FALSE))>>
  /\ call.text = <<Tok("{"), StrTok("muted"), Tok(":"), Tok("false"), Tok(","),
                   StrTok("volume"), Tok(":"), NumTok(80), Tok("}")>>

\* C9: in every state the document of get()/save is a JSON object with
\* exactly one entry per registered field (distinct keys), holding the
\* field's current value, and no other entry.
C9_DocumentComplete ==
  DistinctKeys(variables_)
    => LET text == Config_get(variables_)
           doc == Parse(text).value
       IN /\ Parse(text).ok
          /\ is_object(doc)
          /\ Len(doc.items) = Len(variables_)
          /\ \A i \in 1..Len(variables_) :
               /\ Contains(doc, variables_[i].key_)
               /\ At(doc, variables_[i].key_) = ToJson(variables_[i].value_)

\* The first position of fields whose load from doc throws.
FirstMismatch(doc, fields) ==
  CHOOSE i \in 1..Len(fields) :
    /\ Contains(doc, fields[i].key_)
    /\ ~Convertible(At(doc, fields[i].key_), fields[i].value_.type)
    /\ \A j \in 1..(i - 1) :
         Contains(doc, fields[j].key_)
           => Convertible(At(doc, fields[j].key_), fields[j].value_.type)

\* C10: after a set that ended with a type error at position i, every field
\* before i whose key is in the document holds the document's value, and every
\* field at i or later holds its previous value.
C10_FailingSetNotAtomic ==
  (call.op = "set" /\ call.err = "type_error")
    => /\ CallTextIsObject
       /\ HasMismatch(CallDoc, call.pre)
       /\ Len(variables_) = Len(call.pre)
       /\ LET i == FirstMismatch(CallDoc, call.pre) IN
            \A j \in 1..Len(call.pre) :
              IF j < i
              THEN Contains(CallDoc, call.pre[j].key_)
                     => variables_[j] =
                          Field(call.pre[j].key_,
                                FromJson(At(CallDoc, call.pre[j].key_),
                                         call.pre[j].value_.type))
              ELSE variables_[j] = call.pre[j]

\* A set ended with a type error at the second field after it had given the
\* first field a new value.
C10_Witness ==
  /\ call.op = "set"
  /\ call.err = "type_error"
  /\ Len(call.pre) = 2
  /\ variables_[1] # call.pre[1]
  /\ variables_[2] = call.pre[2]
====
